---- MODULE Spec2Model ----
(***************************************************************************)
(* IPCGLpy: the analog gauge (AnalogGauge.py) and the arrow primitive      *)
(* (Arrow.py) as state machines.                                           *)
(*                                                                         *)
(* A pixel buffer is modelled by its shape and the sequence of drawing     *)
(* calls applied to it since it was blank: two buffers with the same shape *)
(* and the same calls hold the same pixels.  Python floats are modelled by *)
(* exact rationals [n, d]; int() is truncation toward zero.  Where int()   *)
(* is applied to a float whose real value is a non-zero integer and whose  *)
(* operands were rounded (a quotient that is no binary fraction, a         *)
(* multiple of math.pi / 6), the float may lie on either side of that      *)
(* integer and both truncations are kept as a choice.  A point whose       *)
(* coordinates come from math.cos/math.sin of an arbitrary angle is kept   *)
(* as the polar term [c, deg, r] (centre, angle in degrees, radius).       *)
(***************************************************************************)
EXTENDS Integers, Sequences, FiniteSets, TLC

VARIABLES
    image,        \* the caller's buffer handed to AnalogGauge(...): [shape, ops]
    self,         \* the fields assigned so far on the AnalogGauge object
    gauge,        \* the caller's reference: "None" or "AnalogGauge"
    outcome,      \* how the last gauge call ended: "ok" or the exception raised
    last,         \* the last gauge call and its argument (update_display: the
                  \* buffer's calls before it ran)
    arrow_image,  \* Arrow.image: [shape, ops] (shape <<>> before an Arrow exists)
    arrow_call    \* the last Arrow call: its arguments, locals and drawing calls

gaugeVars == <<image, self, gauge, outcome, last>>
arrowVars == <<arrow_image, arrow_call>>
vars == <<image, self, gauge, outcome, last, arrow_image, arrow_call>>

-----------------------------------------------------------------------------
(* Bounds of the model *)

\* max_value is drawn from 0..MaxValueBound
MaxValueBound == 2
\* min_value is drawn from 0..MinValueBound
MinValueBound == 1
\* arch is drawn from 0..ArchBound
ArchBound == 2
\* SetValue arguments run from min_value - Slack to max_value + Slack,
\* needle_angle arguments from -Slack to arch + Slack
Slack == 1
\* arrows run along the rows and columns 0 and MaxCoord of the grid
\* (0..MaxCoord) \X (0..MaxCoord)
MaxCoord == 3
\* draw_arrow is called while the Arrow's image holds fewer than MaxOps
\* drawing calls
MaxOps == 1

\* phase (degrees)
Phases == {0, 90}
\* minor_marks
MinorMarks == {0, 1, 2}
\* image.shape of the buffers handed to the constructors
Shapes == {<<400, 600, 3>>, <<400, 600>>, <<400, 600, 1>>}

-----------------------------------------------------------------------------
(* Arithmetic *)

Abs(x) == IF x < 0 THEN -x ELSE x

Max(a, b) == IF a >= b THEN a ELSE b

Min(a, b) == IF a <= b THEN a ELSE b

RECURSIVE GCD(_, _)
GCD(a, b) == IF b = 0 THEN a ELSE GCD(b, a % b)

\* the rational n/d in lowest terms with a positive denominator (d # 0)
Rat(n, d) ==
    LET g == GCD(Abs(n), Abs(d))
        s == IF d < 0 THEN -1 ELSE 1
    IN  [n |-> (s * n) \div g, d |-> (s * d) \div g]

RInt(k) == [n |-> k, d |-> 1]

RAdd(a, b) == Rat(a.n * b.d + b.n * a.d, a.d * b.d)

RSub(a, b) == Rat(a.n * b.d - b.n * a.d, a.d * b.d)

RMul(a, b) == Rat(a.n * b.n, a.d * b.d)

\* Python's int(x): truncation toward zero
Trunc(a) == IF a.n >= 0 THEN a.n \div a.d ELSE -((-a.n) \div a.d)

RECURSIVE IsPowerOfTwo(_)
IsPowerOfTwo(d) == d = 1 \/ (d % 2 = 0 /\ IsPowerOfTwo(d \div 2))

\* a float that holds the rational a only up to rounding: a is no binary
\* fraction
Rounded(a) == ~IsPowerOfTwo(a.d)

\* the values int(x) can take for the float product x of a and b; inexact
\* tells that a was computed from a rounded float
TruncProduct(a, b, inexact) ==
    LET x == RMul(a, b) IN
    IF x.d = 1 /\ x.n # 0 /\ (inexact \/ Rounded(a) \/ Rounded(b))
    THEN (IF x.n > 0 THEN {x.n - 1, x.n} ELSE {x.n, x.n + 1})
    ELSE {Trunc(x)}

-----------------------------------------------------------------------------
(* AnalogGauge *)

NoFields == <<>>

Blank(shape) == [shape |-> shape, ops |-> <<>>]

PolarPoint(c, deg, r) == [c |-> c, deg |-> deg, r |-> r]

\* lines 34-50: the fields assigned before the first division
FieldsBeforeFactor(shape, max_value, min_value, minor_marks, arch, phase) ==
    [base_image |-> "image", height |-> shape[1], width |-> shape[2],
     max_value |-> max_value, min_value |-> min_value, units |-> "units",
     minor_marks |-> minor_marks, physvalue |-> min_value,
     position |-> RInt(0),
     start_angle |-> phase, arch |-> arch, end_angle |-> phase + arch,
     range |-> Abs(max_value - min_value)]

\* lines 51-61: the scale factors, the geometry and the colours
FieldsGeometry(f) ==
    [factor |-> Rat(f.arch, f.range), factor2 |-> Rat(f.range, f.arch),
     center |-> <<f.width \div 2, f.height \div 2>>,
     radius |-> Min(f.width, f.height) \div 2 - 60,
     scale_color |-> <<200, 200, 200>>, needle_color |-> <<0, 0, 255>>,
     text_color |-> <<255, 255, 255>>]

_draw_gauge_arc(s) ==
    [op |-> "ellipse", center |-> s.center, axes |-> <<s.radius, s.radius>>,
     startAngle |-> s.start_angle, endAngle |-> s.end_angle,
     color |-> s.scale_color, thickness |-> 2]

\* the angle at which the mark of position pos is drawn (line 87)
MarkAngle(s, pos) == RAdd(RInt(s.start_angle), RMul(RInt(pos), s.factor))

\* the label of the mark of position pos (line 97); str() of an integer is
\* kept as the integer
MarkLabel(s, pos) == s.min_value + pos

\* range(0, self.range + 1, self.minor_marks) for a positive step, in order
RECURSIVE MarkPositions(_, _, _)
MarkPositions(pos, stop, step) ==
    IF pos >= stop THEN <<>>
    ELSE <<pos>> \o MarkPositions(pos + step, stop, step)

\* one pass of the loop body: the mark and its label
MarkOps(s, pos) ==
    << [op |-> "line",
        pt1 |-> PolarPoint(s.center, MarkAngle(s, pos), s.radius - 10),
        pt2 |-> PolarPoint(s.center, MarkAngle(s, pos), s.radius),
        color |-> s.scale_color, thickness |-> 2],
       [op |-> "putText", text |-> MarkLabel(s, pos),
        org |-> PolarPoint(s.center, MarkAngle(s, pos), s.radius + 25),
        color |-> s.text_color, thickness |-> 1] >>

RECURSIVE MarksOps(_, _)
MarksOps(s, positions) ==
    IF positions = <<>> THEN <<>>
    ELSE MarkOps(s, Head(positions)) \o MarksOps(s, Tail(positions))

_draw_marks_and_labels(s) ==
    MarksOps(s, MarkPositions(0, s.range + 1, s.minor_marks))

_draw_units_label(s) ==
    [op |-> "putText", text |-> s.units,
     org |-> <<s.center[1] - 30, s.center[2] + 50>>,
     color |-> s.text_color, thickness |-> 2]

_init_base_image(s) ==
    <<_draw_gauge_arc(s)>> \o _draw_marks_and_labels(s) \o <<_draw_units_label(s)>>

\* line 31 without the test of the channel count
ImageRejectedByDimsOnly(shape) == Len(shape) # 3

\* the check of line 31
ImageRejected(shape) == Len(shape) # 3 \/ shape[3] # 3

\* __init__ (lines 11-64)
GaugeConstruct(max_value, min_value, minor_marks, arch, phase) ==
    LET shape == image.shape
        args  == [max_value |-> max_value, min_value |-> min_value,
                  minor_marks |-> minor_marks, arch |-> arch, phase |-> phase]
        f1    == FieldsBeforeFactor(shape, max_value, min_value, minor_marks, arch, phase)
    IN  /\ last.op = "start"
        /\ last' = [op |-> "__init__", arg |-> args]
        /\ IF ImageRejected(shape)
           THEN /\ outcome' = "ValueError: The image must be a 3-channel uint8 array."
                /\ UNCHANGED <<image, self, gauge>>
           ELSE IF f1.range = 0 \/ f1.arch = 0
           THEN /\ outcome' = "ZeroDivisionError"
                /\ self' = f1
                /\ UNCHANGED <<image, gauge>>
           ELSE LET s == f1 @@ FieldsGeometry(f1) IN
                IF s.minor_marks = 0
                THEN /\ outcome' = "ValueError: range() arg 3 must not be zero"
                     /\ image' = [image EXCEPT !.ops = @ \o <<_draw_gauge_arc(s)>>]
                     /\ self' = s
                     /\ UNCHANGED gauge
                ELSE /\ outcome' = "ok"
                     /\ image' = [image EXCEPT !.ops = @ \o _init_base_image(s)]
                     /\ self' = s @@ [background |-> image'.ops]
                     /\ gauge' = "AnalogGauge"
        /\ UNCHANGED arrowVars

\* the needle_angle property (lines 121-124)
needle_angle == RSub(self.position, RInt(self.start_angle))

GetValue == self.physvalue

\* lines 149-152
ClampNoUpper(value, min_value, max_value) ==
    IF value < min_value THEN min_value ELSE value

Clamp(value, min_value, max_value) ==
    IF value < min_value THEN min_value
    ELSE IF value > max_value THEN max_value
    ELSE value

\* line 155
ValueToPosition(s, value) == RAdd(RInt(s.start_angle), RMul(RInt(value), s.factor))

\* SetValue (lines 142-155)
SetValue(v) ==
    /\ gauge = "AnalogGauge"
    /\ LET value == Clamp(v, self.min_value, self.max_value) IN
       self' = [self EXCEPT !.physvalue = value,
                            !.position = ValueToPosition(self, value)]
    /\ outcome' = "ok"
    /\ last' = [op |-> "SetValue", arg |-> v]
    /\ UNCHANGED <<image, gauge, arrowVars>>

\* line 134: the values int(value * self.factor2) + self.min_value can take
AngleToValues(s, value, inexact) ==
    { t + s.min_value : t \in TruncProduct(value, s.factor2, inexact) }

\* the needle_angle setter (lines 126-135); value is an int or a float
SetNeedleAngle(value, inexact, readback) ==
    /\ gauge = "AnalogGauge"
    /\ \E physvalue \in AngleToValues(self, value, inexact) :
          self' = [self EXCEPT !.physvalue = physvalue,
                               !.position = RAdd(value, RInt(self.start_angle))]
    /\ outcome' = "ok"
    /\ last' = [op |-> "needle_angle", arg |-> value, readback |-> readback]
    /\ UNCHANGED <<image, gauge, arrowVars>>

\* the caller assigns an integer angle
NeedleAngleAssign(a) == SetNeedleAngle(RInt(a), FALSE, [after |-> "none", v |-> 0])

\* the caller assigns back the angle it has just read from needle_angle, a
\* float that line 155 may have computed with the rounded self.factor;
\* "readback" remembers the SetValue argument when SetValue was the call before
NeedleAngleReadBack ==
    /\ gauge = "AnalogGauge"
    /\ SetNeedleAngle(needle_angle, Rounded(self.factor),
                      IF last.op = "SetValue"
                      THEN [after |-> "SetValue", v |-> last.arg]
                      ELSE [after |-> "other", v |-> 0])

\* line 164: the buffer update_display starts from
DisplayStartFromBase(background, base) == base

DisplayStart(background, base) == background

\* lines 166-187: the needle, the hub and the value text; f"{physvalue}" of
\* an integer is kept as the integer
Overlay(s) ==
    << [op |-> "line", pt1 |-> s.center,
        pt2 |-> PolarPoint(s.center, s.position, s.radius - 30),
        color |-> s.needle_color, thickness |-> 3],
       [op |-> "circle", center |-> s.center, radius |-> 6,
        color |-> s.needle_color, thickness |-> -1],
       [op |-> "putText", text |-> s.physvalue,
        org |-> <<s.center[1] - 30, s.center[2] + 20>>,
        color |-> s.text_color, thickness |-> 2] >>

\* update_display (lines 157-189)
update_display ==
    /\ gauge = "AnalogGauge"
    /\ LET display_image == DisplayStart(self.background, image.ops) \o Overlay(self) IN
       image' = [image EXCEPT !.ops = display_image]
    /\ outcome' = "ok"
    /\ last' = [op |-> "update_display", arg |-> image.ops]
    /\ UNCHANGED <<self, gauge, arrowVars>>

-----------------------------------------------------------------------------
(* Arrow *)

\* the largest k >= 0 with k * k * den <= num: floor(sqrt(num / den))
RECURSIVE FloorSqrtFrom(_, _, _)
FloorSqrtFrom(k, num, den) ==
    IF (k + 1) * (k + 1) * den <= num THEN FloorSqrtFrom(k + 1, num, den) ELSE k

FloorSqrt(num, den) == FloorSqrtFrom(0, num, den)

Sign(x) == IF x < 0 THEN -1 ELSE 1

\* The values int(n + s * sqrt(num / den)) can take (s = 1 or -1).  Where the
\* real value is not an integer the float lies strictly between two integers
\* and the truncation is the exact one.  Where it is a non-zero integer m and
\* `inexact` says the float operands were rounded (math.pi / 6, a quotient),
\* the float may fall on either side of m, and both truncations are kept.
TruncOffsets(n, s, num, den, inexact) ==
    LET f == FloorSqrt(num, den)
        m == n + s * f
    IN  IF f * f * den = num
        THEN IF num = 0 \/ ~inexact THEN {m}
             ELSE IF m > 0 THEN {m - 1, m}
             ELSE IF m < 0 THEN {m, m + 1}
             ELSE {0}
        ELSE IF s > 0
             THEN (IF m >= 0 THEN {m} ELSE {m + 1})
             ELSE (IF m - 1 >= 0 THEN {m - 1} ELSE {m})

\* np.arctan2(dy, dx) in degrees, for an axis-aligned vector of integers
Arctan2(dy, dx) ==
    IF dy = 0 THEN (IF dx >= 0 THEN 0 ELSE 180)
    ELSE IF dy > 0 THEN 90 ELSE -90

\* cos and sin of the angles angle -+ 30 degrees of an axis-aligned arrow, as
\* [s, q]: the value s * sqrt(q / 4)
Cos(deg) ==
    CASE deg \in {-30, 30}   -> [s |-> 1, q |-> 3]
      [] deg \in {150, 210}  -> [s |-> -1, q |-> 3]
      [] deg \in {60, -60}   -> [s |-> 1, q |-> 1]
      [] deg \in {120, -120} -> [s |-> -1, q |-> 1]

Sin(deg) ==
    CASE deg \in {30, 150}   -> [s |-> 1, q |-> 1]
      [] deg \in {-30, 210}  -> [s |-> -1, q |-> 1]
      [] deg \in {60, 120}   -> [s |-> 1, q |-> 3]
      [] deg \in {-60, -120} -> [s |-> -1, q |-> 3]

\* Arrow.__init__ (lines 5-9): a grayscale image is converted to BGR, any
\* other is copied; the images handed in are blank
ArrowConstruct(shape) ==
    /\ arrow_image' = IF Len(shape) = 2 THEN Blank(shape \o <<3>>) ELSE Blank(shape)
    /\ arrow_call' = [op |-> "__init__", shape |-> shape]
    /\ UNCHANGED gaugeVars

\* line 32 with round() in place of int(): round-half-up of tip * length
HeadLengthRounded(tip_length, dx, dy) ==
    Max(1, FloorSqrt(4 * tip_length.n * tip_length.n * (dx * dx + dy * dy)
                       + 4 * tip_length.n * tip_length.d * FloorSqrt(dx * dx + dy * dy, 1)
                       + tip_length.d * tip_length.d,
                     4 * tip_length.d * tip_length.d))

\* lines 30-32: max(1, int(tip_length * norm(arrow_vec)))
HeadLength(tip_length, dx, dy) ==
    Max(1, FloorSqrt(tip_length.n * tip_length.n * (dx * dx + dy * dy),
                     tip_length.d * tip_length.d))

\* lines 39-42: the values a side point's coordinate can take
SidePointCoords(e, arrowhead_length, trig) ==
    TruncOffsets(e, 0 - trig.s, arrowhead_length * arrowhead_length * trig.q, 4, TRUE)

\* line 45
BaseCenter(p1, p2) == <<(p1[1] + p2[1]) \div 2, (p1[2] + p2[2]) \div 2>>

LineOp(pt1, pt2, color, thickness) ==
    [op |-> "line", pt1 |-> pt1, pt2 |-> pt2, color |-> color, thickness |-> thickness]

FilledCircleOp(center, radius, color) ==
    [op |-> "circle", center |-> center, radius |-> radius, color |-> color,
     thickness |-> -1]

FillPolyOp(pts, color) == [op |-> "fillPoly", pts |-> pts, color |-> color]

\* lines 59-67: the corner sets the square shaft can have (L # 0)
SquareShaftPts(start_point, base_center, thickness) ==
    LET dx == base_center[1] - start_point[1]
        dy == base_center[2] - start_point[2]
        D  == dx * dx + dy * dy
        rounded == dx # 0 /\ dy # 0
        \* pdx * half_thick = -dy * thickness / (2 L), pdy * half_thick = dx * thickness / (2 L)
        X(n, s) == TruncOffsets(n, s * Sign(0 - dy), dy * dy * thickness * thickness, 4 * D, rounded)
        Y(n, s) == TruncOffsets(n, s * Sign(dx), dx * dx * thickness * thickness, 4 * D, rounded)
    IN  { <<pt1, pt2, pt3, pt4>> :
            pt1 \in X(start_point[1], 1) \X Y(start_point[2], 1),
            pt2 \in X(start_point[1], -1) \X Y(start_point[2], -1),
            pt3 \in X(base_center[1], -1) \X Y(base_center[2], -1),
            pt4 \in X(base_center[1], 1) \X Y(base_center[2], 1) }

\* str.lower() on the cap styles the model passes
Lower(shaft_cap) ==
    CASE shaft_cap = "Square" -> "square"
      [] OTHER -> shaft_cap

\* lines 48-73: the drawing calls the shaft can be made of
ShaftOps(start_point, base_center, color, thickness, shaft_cap) ==
    IF Lower(shaft_cap) = "round"
    THEN { << LineOp(start_point, base_center, color, thickness),
              FilledCircleOp(start_point, thickness \div 2, color),
              FilledCircleOp(base_center, thickness \div 2, color) >> }
    ELSE IF Lower(shaft_cap) = "square"
    THEN IF start_point # base_center
         THEN { << FillPolyOp(pts, color) >> :
                   pts \in SquareShaftPts(start_point, base_center, thickness) }
         ELSE { << LineOp(start_point, base_center, color, thickness) >> }
    ELSE { << LineOp(start_point, base_center, color, thickness) >> }

\* line 50, 70, 73 with end_point as the target of the shaft
ShaftTargetEnd(base_center, end_point) == end_point

\* the point the shaft is drawn to (lines 50, 65-66, 70, 73)
ShaftTarget(base_center, end_point) == base_center

\* lines 47-77: the shaft's calls, then the head's
SolidCalls(shaft, head) == shaft \o <<head>>

\* draw_arrow (lines 11-80)
draw_arrow(start_point, end_point, tip_length, color, thickness, solid_arrowhead, shaft_cap) ==
    LET dx == end_point[1] - start_point[1]
        dy == end_point[2] - start_point[2]
        arrowhead_length == HeadLength(tip_length, dx, dy)
        angle == Arctan2(dy, dx)
        args == [start_point |-> start_point, end_point |-> end_point,
                 tip_length |-> tip_length, color |-> color, thickness |-> thickness,
                 solid_arrowhead |-> solid_arrowhead, shaft_cap |-> shaft_cap]
    IN  /\ IF solid_arrowhead
           THEN \E p1 \in SidePointCoords(end_point[1], arrowhead_length, Cos(angle - 30))
                          \X SidePointCoords(end_point[2], arrowhead_length, Sin(angle - 30)),
                   p2 \in SidePointCoords(end_point[1], arrowhead_length, Cos(angle + 30))
                          \X SidePointCoords(end_point[2], arrowhead_length, Sin(angle + 30)) :
                LET base_center == BaseCenter(p1, p2) IN
                \E shaft \in ShaftOps(start_point, ShaftTarget(base_center, end_point),
                                      color, thickness, shaft_cap) :
                LET calls == SolidCalls(shaft, FillPolyOp(<<end_point, p1, p2>>, color)) IN
                /\ arrow_image' = [arrow_image EXCEPT !.ops = @ \o calls]
                /\ arrow_call' = [op |-> "draw_arrow", args |-> args,
                                  arrowhead_length |-> arrowhead_length,
                                  p1 |-> p1, p2 |-> p2, base_center |-> base_center,
                                  calls |-> calls]
           ELSE LET calls == << [op |-> "arrowedLine", pt1 |-> start_point,
                                 pt2 |-> end_point, color |-> color,
                                 thickness |-> thickness, tipLength |-> tip_length] >> IN
                /\ arrow_image' = [arrow_image EXCEPT !.ops = @ \o calls]
                /\ arrow_call' = [op |-> "draw_arrow", args |-> args,
                                  arrowhead_length |-> arrowhead_length,
                                  calls |-> calls]
        /\ UNCHANGED gaugeVars

-----------------------------------------------------------------------------
(* Specifications *)

\* the border of the grid: row or column 0 is where int() truncates a
\* negative offset toward zero, row or column MaxCoord where it does not
Points == { p \in (0..MaxCoord) \X (0..MaxCoord) :
              p[1] \in {0, MaxCoord} \/ p[2] \in {0, MaxCoord} }

\* tip_length: 0.5 and 1.0 are exact floats, so is their product with the
\* integer length of an axis-aligned arrow
Tips == {[n |-> 1, d |-> 2], [n |-> 1, d |-> 1]}

Caps == {"round", "Square", "flat"}

\* image.shape of the images handed to Arrow(...): grayscale and colour
ArrowShapes == {<<400, 600>>, <<400, 600, 3>>}

GaugeInit ==
    /\ image \in {Blank(sh) : sh \in Shapes}
    /\ self = NoFields
    /\ gauge = "None"
    /\ outcome = "ok"
    /\ last = [op |-> "start", arg |-> "none"]
    /\ arrow_image = Blank(<<>>)
    /\ arrow_call = [op |-> "start"]

GaugeNext ==
    \/ \E max_value \in 0..MaxValueBound, min_value \in 0..MinValueBound,
          minor_marks \in MinorMarks, arch \in 0..ArchBound, phase \in Phases :
          GaugeConstruct(max_value, min_value, minor_marks, arch, phase)
    \/ \E v \in (0 - Slack)..(MaxValueBound + Slack) :
          /\ gauge = "AnalogGauge"
          /\ v >= Min(self.min_value, self.max_value) - Slack
          /\ v <= Max(self.min_value, self.max_value) + Slack
          /\ SetValue(v)
    \/ \E a \in (0 - Slack)..(ArchBound + Slack) :
          /\ gauge = "AnalogGauge"
          /\ a <= self.arch + Slack
          /\ NeedleAngleAssign(a)
    \/ NeedleAngleReadBack
    \/ update_display

GaugeSpec == GaugeInit /\ [][GaugeNext]_vars

ArrowInit ==
    /\ image = Blank(<<400, 600, 3>>)
    /\ self = NoFields
    /\ gauge = "None"
    /\ outcome = "ok"
    /\ last = [op |-> "start", arg |-> "none"]
    /\ arrow_image = Blank(<<>>)
    /\ arrow_call = [op |-> "start"]

ArrowNext ==
    \/ \E shape \in ArrowShapes : ArrowConstruct(shape)
    \/ /\ arrow_call.op # "start"
       /\ Len(arrow_image.ops) < MaxOps
       /\ \E start_point \in Points, end_point \in Points, tip_length \in Tips,
          solid_arrowhead \in BOOLEAN, shaft_cap \in Caps :
          /\ start_point[1] = end_point[1] \/ start_point[2] = end_point[2]
          /\ ~solid_arrowhead => shaft_cap = "round"
          /\ draw_arrow(start_point, end_point, tip_length, <<0, 255, 0>>, 2,
                        solid_arrowhead, shaft_cap)

ArrowSpec == ArrowInit /\ [][ArrowNext]_vars

-----------------------------------------------------------------------------
(* Claims about AnalogGauge, checked under GaugeSpec *)

Constructed == gauge = "AnalogGauge"

\* the numeric labels drawn at construction (the units label has thickness 2)
DrawnLabels ==
    { self.background[i] : i \in { j \in 1..Len(self.background) :
                                     /\ self.background[j].op = "putText"
                                     /\ self.background[j].thickness = 1 } }

\* C1: after any value assignment through SetValue or needle_angle, on a gauge
\* with max_value # min_value, _position = start_angle + physvalue * scaleFactor
\* with scaleFactor = arch / (max_value - min_value).  (Stated for the gauges
\* with min_value < max_value among those with max_value # min_value.)
C1_AngleValueInvariant ==
    (/\ Constructed
     /\ self.min_value < self.max_value
     /\ last.op \in {"SetValue", "needle_angle"})
    => self.position =
         RAdd(RInt(self.start_angle),
              RMul(RInt(self.physvalue), Rat(self.arch, self.max_value - self.min_value)))

\* C2: on a gauge with min_value < max_value, GetValue() right after
\* SetValue(v) is v when v is within [min_value, max_value], min_value when v
\* is below and max_value when v is above, and SetValue raises nothing.
C2_SetValueClamps ==
    (/\ Constructed
     /\ self.min_value < self.max_value
     /\ last.op = "SetValue")
    => /\ outcome = "ok"
       /\ (self.min_value <= last.arg /\ last.arg <= self.max_value) => GetValue = last.arg
       /\ last.arg < self.min_value => GetValue = self.min_value
       /\ last.arg > self.max_value => GetValue = self.max_value

\* C2's case: an argument above max_value has been clamped to max_value
C2_Witness ==
    /\ Constructed
    /\ self.min_value < self.max_value
    /\ last.op = "SetValue"
    /\ last.arg > self.max_value
    /\ GetValue = self.max_value

\* C3: in every state reached after construction by SetValue, needle_angle
\* assignments and update_display, physvalue lies within [min_value, max_value].
\* (Stated for the gauges with min_value < max_value, whose interval is not
\* empty.)
C3_ValueWithinRange ==
    (Constructed /\ self.min_value < self.max_value)
    => (self.min_value <= GetValue /\ GetValue <= self.max_value)

\* C4: SetValue(v) with v within [min_value, max_value], then needle_angle
\* assigned the angle just read from needle_angle, leaves GetValue() within
\* less than 1 of v (equal to v, both being integers).
C4_RoundTrip ==
    (/\ Constructed
     /\ self.max_value # self.min_value
     /\ last.op = "needle_angle"
     /\ last.readback.after = "SetValue"
     /\ self.min_value <= last.readback.v
     /\ last.readback.v <= self.max_value)
    => Abs(GetValue - last.readback.v) < 1

\* C5: the background layer stays the dial rendered at construction, and the
\* caller's buffer after update_display is that background followed by the
\* needle, hub and value text of the current angle and value only.
C5_RedrawFromBackground ==
    Constructed =>
       /\ self.background = _init_base_image(self)
       /\ last.op = "update_display" =>
             /\ SubSeq(image.ops, 1, Len(self.background)) = self.background
             /\ Len(image.ops) = Len(self.background) + 3
             /\ image.ops[Len(image.ops) - 2].pt2.deg = self.position
             /\ image.ops[Len(image.ops)].text = self.physvalue
             /\ \A i \in 1..Len(image.ops) :
                   (image.ops[i].op = "line" /\ image.ops[i].thickness = 3)
                   => i = Len(image.ops) - 2

\* C5's case: update_display ran on a buffer that showed the needle of
\* another angle
C5_Witness ==
    /\ Constructed
    /\ last.op = "update_display"
    /\ Len(last.arg) = Len(self.background) + 3
    /\ last.arg[Len(last.arg) - 2].pt2.deg # self.position

\* C6: constructing with max_value = min_value ends in a range-validation
\* error, leaves no gauge, stores no scale factor and draws nothing into the
\* caller's buffer.  (Stated for constructions whose other arguments are
\* sound: a 3-channel buffer, arch # 0, minor_marks # 0.)
C6_EqualBoundsRejected ==
    (/\ last.op = "__init__"
     /\ last.arg.max_value = last.arg.min_value
     /\ last.arg.arch # 0
     /\ last.arg.minor_marks # 0
     /\ Len(image.shape) = 3
     /\ image.shape[3] = 3)
    => /\ outcome = "InvalidRangeError"
       /\ gauge = "None"
       /\ "factor" \notin DOMAIN self
       /\ image.ops = <<>>

\* C7: constructing with a buffer that is 2-dimensional or whose third
\* dimension is not 3 ends in the input-validation error before any state is
\* created: no field is set, nothing is drawn, the buffer is unchanged.
C7_BadImageRejected ==
    (/\ last.op = "__init__"
     /\ (Len(image.shape) = 2 \/ (Len(image.shape) = 3 /\ image.shape[3] # 3)))
    => /\ outcome = "ValueError: The image must be a 3-channel uint8 array."
       /\ gauge = "None"
       /\ DOMAIN self = {}
       /\ image.ops = <<>>

\* C7's case: a construction with a one-channel buffer has been refused
C7_Witness ==
    /\ last.op = "__init__"
    /\ image.shape = <<400, 600, 1>>
    /\ outcome # "ok"

\* C10: the needle angle stored after SetValue(v), v the label of a mark drawn
\* at construction, is the angle at which that mark was drawn; the needle
\* angle right after construction is the angle of the mark labelled min_value.
\* (Stated for the gauges with min_value < max_value.)
C10_NeedleMatchesDial ==
    (Constructed /\ self.min_value < self.max_value) =>
       /\ last.op = "SetValue" =>
             \A t \in DrawnLabels : t.text = last.arg => self.position = t.org.deg
       /\ last.op = "__init__" =>
             \A t \in DrawnLabels : t.text = self.min_value => self.position = t.org.deg

-----------------------------------------------------------------------------
(* Claims about Arrow.draw_arrow, checked under ArrowSpec *)

SolidDrawn == arrow_call.op = "draw_arrow" /\ arrow_call.args.solid_arrowhead

\* the calls of the shaft: all but the last
ShaftCalls == SubSeq(arrow_call.calls, 1, Len(arrow_call.calls) - 1)

HeadCall == arrow_call.calls[Len(arrow_call.calls)]

\* the first shaft call runs from start_point to point t
ShaftDrawnTo(t) ==
    LET c == ShaftCalls[1] IN
    \/ c.op = "line" /\ c.pt1 = arrow_call.args.start_point /\ c.pt2 = t
    \/ /\ c.op = "fillPoly"
       /\ arrow_call.args.start_point # t
       /\ c.pts \in SquareShaftPts(arrow_call.args.start_point, t, arrow_call.args.thickness)

\* base_center is the midpoint of p1 and p2 (floored)
IsMidpoint(b, p1, p2) ==
    \A i \in 1..2 : 2 * b[i] <= p1[i] + p2[i] /\ p1[i] + p2[i] <= 2 * b[i] + 1

\* what C8 says apart from "never to end"
C8_ShaftAndHead ==
    /\ Len(arrow_call.calls) >= 2
    /\ IsMidpoint(arrow_call.base_center, arrow_call.p1, arrow_call.p2)
    /\ ShaftDrawnTo(arrow_call.base_center)
    /\ HeadCall = FillPolyOp(<<arrow_call.args.end_point, arrow_call.p1, arrow_call.p2>>,
                             arrow_call.args.color)
    /\ \A i \in 1..Len(ShaftCalls) : ShaftCalls[i] # HeadCall
    /\ (/\ arrow_call.args.shaft_cap \in {"square", "Square"}
        /\ arrow_call.args.start_point = arrow_call.base_center)
       => /\ Len(arrow_call.calls) = 2
          /\ ShaftCalls[1].op = "line"

ArrowLength ==
    Abs(arrow_call.args.end_point[1] - arrow_call.args.start_point[1])
    + Abs(arrow_call.args.end_point[2] - arrow_call.args.start_point[2])

\* C9 as stated: the arrowhead length is max(1, round(tip_length * length)).
\* k = round(x) when 2k - 1 < 2x < 2k + 1; a tie x = k - 1/2 rounds up to k
\* (half up, or half to even with k even), a tie x = k + 1/2 rounds down to k
\* only half to even with k even: either rule is allowed.
C9_Original ==
    arrow_call.op = "draw_arrow" =>
       LET n == arrow_call.args.tip_length.n
           d == arrow_call.args.tip_length.d
           h == arrow_call.arrowhead_length
           IsRound(k) == \/ /\ (2 * k - 1) * d <= 2 * n * ArrowLength
                            /\ 2 * n * ArrowLength < (2 * k + 1) * d
                         \/ /\ 2 * n * ArrowLength = (2 * k + 1) * d
                            /\ k % 2 = 0
       IN  \/ IsRound(h) /\ h >= 1
           \/ h = 1 /\ \E k \in -1..0 : IsRound(k)

\* C9 as amended: the arrowhead length is max(1, int(tip_length * length)),
\* the product truncated, not rounded.
C9_Amended ==
    arrow_call.op = "draw_arrow" =>
       LET n == arrow_call.args.tip_length.n
           d == arrow_call.args.tip_length.d
           h == arrow_call.arrowhead_length
       IN  \/ h >= 1 /\ h * d <= n * ArrowLength /\ n * ArrowLength < (h + 1) * d
           \/ h = 1 /\ n * ArrowLength < d

\* C9's case: fraction 0.5 of length 3, where truncation and rounding differ
C9_Witness ==
    /\ arrow_call.op = "draw_arrow"
    /\ arrow_call.args.tip_length = [n |-> 1, d |-> 2]
    /\ ArrowLength = 3
    /\ arrow_call.arrowhead_length = 1

====
